---- MODULE Spec2Model ----
(***************************************************************************)
(* Model of the minimap of codemirror-minimap:                             *)
(*   - TextState (src/unnamed/part_000): the highlight engine, its idle    *)
(*     scheduling, its merge of highlight ranges with line spans and its   *)
(*     style resolution;                                                   *)
(*   - the viewport projection computed in TextState.updateImpl;           *)
(*   - SelectionState (src/state/selections.ts);                           *)
(*   - OverlayView (src/overlay.ts).                                       *)
(*                                                                         *)
(* The specifications share the definitions:                               *)
(*   Spec            the engine: update events and the tasks they schedule;*)
(*   SpecDraw        the engine with measure and beforeDraw of the draw    *)
(*                   path;                                                 *)
(*   SpecMerge       one merge (updateMap) over every small document, fold *)
(*                   layout and highlight stream, cut into chunks by the   *)
(*                   deadline;                                             *)
(*   SpecWindow      the viewport projection over every small viewport;    *)
(*   SpecSelect      SelectionState under update events;                   *)
(*   SpecSelectLoop  one run of SelectionState.update, statement by        *)
(*                   statement;                                            *)
(*   SpecOverlay     the overlay under mouse, scroll and update events.    *)
(***************************************************************************)
EXTENDS Integers, Sequences, FiniteSets, TLC

VARIABLES
  \* ---- the editor and its environment (engine specification) ----
  viewState,      \* view.state: the EditorState the view currently holds
  classList,      \* view.dom.classList
  viewport,       \* view.viewport: [from, to] document offsets
  hasRIC,         \* typeof window.requestIdleCallback !== "undefined"
  \* ---- TextState fields ----
  map,                      \* LineBasedState.map: line number -> Array<TagSpan>
  _previousParsePos,
  _themeClasses,
  _fontInfoMap,
  _highlightingCallbackId,
  _parseCallbackId,
  _updateMapCallbackId,
  _updateCallbackId,
  \* ---- the idle scheduler ----
  queue,          \* scheduled, not yet run callbacks, in the order they were posted
  \* ---- history of the engine run (observation only) ----
  gen,            \* update.state of the last update() that needed a recompute
  genThemeChanged,\* that update() found the theme changed (shouldUpdate, line 59)
  updates,        \* number of update events delivered so far
  last,           \* what the last step did
  \* ---- one merge under SpecMerge ----
  mIn,            \* the arguments of updateMap: state (doc, lines) and highlights
  mStartLine,     \* closure variable startLine
  mPtr,           \* closure variable highlightPtr (index of the iterator)
  mMap,           \* this.map
  mPc,            \* "pending": a (re)scheduled updateMapCallback waits; "done"
  mChunks,        \* number of chunks run so far
  \* ---- the viewport projection under SpecWindow ----
  wIn,            \* [L, vpTop, vpBottom, sizeRatio, pixelMultiplier]
  wOut,           \* [top, bottom] once computed, or NoWindow
  \* ---- SelectionState under SpecSelect ----
  selIn,            \* update.state of the last update: [doc, fold, ranges]
  selClassList,     \* view.dom.classList.value
  selMap,           \* LineBasedState.map: line number -> Array<Selection>
  sel_themeClasses, \* SelectionState._themeClasses
  sel_drawInfo,     \* SelectionState._drawInfo: the class list it was resolved under
  selUpdates,       \* number of update events delivered so far
  selDropped,       \* observation: the last update found a cached line it does not write
  \* ---- one run of SelectionState.update, statement by statement ----
  loopIn,           \* update.state: [doc, fold, ranges]
  loopPc,           \* where the run stands: "lines", "spans", "do", "done"
  loopIndex,        \* index of the for loop over the lines (line 73)
  loopSpan,         \* position of the for loop over the spans of the line (line 76)
  loopCursor,       \* selectionIndex (line 72)
  loopSelections,   \* selections (line 74)
  loopMap,          \* this.map
  loopIter,         \* observation: iterations of the do/while run for the current span
  \* ---- OverlayView (src/overlay.ts) under SpecOverlay ----
  ov_isDragging,
  ov_dragStartY,    \* <<>> for undefined, <<y>> for the number y
  ovClassList,      \* container.classList without cm-minimap-overlay-container
  ovTop,            \* parseFloat(dom.style.top), a fraction [n, d]
  ovHeight,         \* parseFloat(dom.style.height), a fraction
  ovScrollTop,      \* view.scrollDOM.scrollTop, a fraction
  ovScrollHeight,   \* view.scrollDOM.scrollHeight
  ovShowOverlay,    \* view.state.facet(Config).showOverlay
  ovListeners,      \* the listeners registered on the container and the window
  ovAttached,       \* the container is in the document
  ovDestroyed,      \* destroy() has been called
  ovFrame,          \* a computeTop posted by requestAnimationFrame is pending
  ovEvents,         \* number of events delivered so far
  ovLast            \* what the last step was

engineVars == <<viewState, classList, viewport, hasRIC, map, _previousParsePos,
                _themeClasses, _fontInfoMap, _highlightingCallbackId,
                _parseCallbackId, _updateMapCallbackId, _updateCallbackId,
                queue, gen, genThemeChanged, updates, last>>
mergeVars  == <<mIn, mStartLine, mPtr, mMap, mPc, mChunks>>
windowVars == <<wIn, wOut>>
selVars    == <<selIn, selClassList, selMap, sel_themeClasses, sel_drawInfo, selUpdates,
                selDropped>>
loopVars   == <<loopIn, loopPc, loopIndex, loopSpan, loopCursor, loopSelections, loopMap,
                loopIter>>
overlayVars == <<ov_isDragging, ov_dragStartY, ovClassList, ovTop, ovHeight, ovScrollTop,
                 ovScrollHeight, ovShowOverlay, ovListeners, ovAttached, ovDestroyed,
                 ovFrame, ovEvents, ovLast>>
vars == <<engineVars, mergeVars, windowVars, selVars, loopVars, overlayVars>>

(***************************************************************************)
(* Bounds of the model                                                     *)
(***************************************************************************)
MaxDocLen == 4        \* SpecMerge: longest document, in characters
MaxHighlights == 3    \* SpecMerge: longest highlight stream
MaxChunks == 4        \* SpecMerge: chunks counted up to this number
MaxLines == 7         \* SpecWindow: longest document, in lines
MaxScale == 4         \* SpecWindow: largest scale constant tried
MaxUpdates == 2       \* Spec: update events delivered to the engine
MaxPending == 1       \* Spec: callbacks pending when an update event arrives
MaxStop == 1          \* Spec: lines a callback writes before its deadline is exhausted
MaxSelDocLen == 3     \* SpecSelect: characters of a document
MaxRanges == 2        \* SpecSelect: selection ranges of an update
MaxSelUpdates == 2    \* SpecSelect: update events
MaxLoopDocLen == 3    \* SpecSelectLoop: characters of a document
MaxLoopRanges == 2    \* SpecSelectLoop: ranges of the list
MaxOverlayEvents == 4 \* SpecOverlay: events delivered to the overlay
MaxClientY == 3       \* SpecOverlay: mouse positions tried, YStep pixels apart

(***************************************************************************)
(* JavaScript values                                                       *)
(***************************************************************************)
Undefined == 0        \* undefined, for a handle; real handles are positive
Null == 0 - 1         \* null, for a handle

Max(a, b) == IF a > b THEN a ELSE b
Min(a, b) == IF a < b THEN a ELSE b

\* String.prototype.slice(start, end) for 0 <= start, end
slice(s, start, end) ==
  SubSeq(s, Min(start, Len(s)) + 1, Min(end, Len(s)))

\* Map.prototype.set
mapSet(m, k, v) == [x \in (DOMAIN m) \cup {k} |-> IF x = k THEN v ELSE m[x]]

EmptyMap == [x \in {} |-> <<>>]

(***************************************************************************)
(* Documents: a document is the sequence of its characters; "\n" breaks    *)
(* lines. Offsets are 0-based as in CodeMirror; lines are 1-based.         *)
(***************************************************************************)
NL == "\n"
Letters == <<"a", "b", "c", "d", "e", "f", "g", "h">>

\* offsets of the line breaks of doc, ascending
RECURSIVE breaksFrom(_, _)
breaksFrom(doc, i) ==
  IF i > Len(doc) THEN <<>>
  ELSE IF doc[i] = NL THEN <<i - 1>> \o breaksFrom(doc, i + 1)
  ELSE breaksFrom(doc, i + 1)

docLines(doc) == Len(breaksFrom(doc, 1)) + 1

\* Text.line(n): [from, to] of line n, to excludes the line break
docLine(doc, n) ==
  LET b == breaksFrom(doc, 1)
  IN [from |-> IF n = 1 THEN 0 ELSE b[n - 1] + 1,
      to   |-> IF n > Len(b) THEN Len(doc) ELSE b[n]]

\* Text.lineAt(pos).number for 0 <= pos <= doc.length
lineAtNumber(doc, pos) ==
  CHOOSE n \in 1..docLines(doc) : docLine(doc, n).from <= pos /\ pos <= docLine(doc, n).to

NoFold == [from |-> 0, to |-> 0]

\* LinesState: per document line the ordered spans covering it; a fold lying
\* inside a line splits the line into unfolded / folded / unfolded spans.
lineSpans(doc, n, fold) ==
  LET l == docLine(doc, n)
  IN IF fold.from < fold.to /\ l.from <= fold.from /\ fold.to <= l.to
     THEN (IF l.from < fold.from
             THEN <<[from |-> l.from, to |-> fold.from, folded |-> FALSE]>>
             ELSE <<>>)
          \o <<[from |-> fold.from, to |-> fold.to, folded |-> TRUE]>>
          \o (IF fold.to < l.to
                THEN <<[from |-> fold.to, to |-> l.to, folded |-> FALSE]>>
                ELSE <<>>)
     ELSE <<[from |-> l.from, to |-> l.to, folded |-> FALSE]>>

LinesState(doc, fold) == [n \in 1..docLines(doc) |-> lineSpans(doc, n, fold)]

(***************************************************************************)
(* The merge of updateMapCallback (part_000 lines 235-305)                 *)
(***************************************************************************)
Placeholder == <<"ELLIPSIS">>     \* the one-glyph text of a folded span

highlightStart_unclamped(from, spanFrom) == from
\* line 267
highlightStart(from, spanFrom) == Max(from, spanFrom)

highlightEnd_unclamped(to, spanTo) == to
\* line 268
highlightEnd(to, spanTo) == Min(to, spanTo)

\* line 256: the highlight lies before the current position
highlightIsBehind(to, position) == to < position

\* lines 252-281: the while loop over the highlight iterator for one span.
\* ptr is the index of highlightPtr in highlights; done iff ptr > Len.
RECURSIVE rangeWalk(_, _, _, _, _, _)
rangeWalk(docToString, span, highlights, ptr, position, spans) ==
  IF ptr > Len(highlights) \/ ~(highlights[ptr].from < span.to)
  THEN [spans |-> spans, position |-> position, ptr |-> ptr]
  ELSE LET h == highlights[ptr] IN
    IF highlightIsBehind(h.to, position)
    THEN rangeWalk(docToString, span, highlights, ptr + 1, position, spans)
    ELSE LET unstyled == IF h.from > position
                         THEN Append(spans, [text |-> slice(docToString, position, h.from),
                                             tags |-> ""])
                         ELSE spans
             start == highlightStart(h.from, span.from)
             end == highlightEnd(h.to, span.to)
             styled == Append(unstyled, [text |-> slice(docToString, start, end),
                                         tags |-> h.tags])
         IN IF h.to > end
            THEN [spans |-> styled, position |-> end, ptr |-> ptr]
            ELSE rangeWalk(docToString, span, highlights, ptr + 1, end, styled)

\* lines 239-290: one span of a line
mergeSpan(docToString, span, highlights, ptr, spans) ==
  IF span.from = span.to THEN [spans |-> spans, ptr |-> ptr]
  ELSE IF span.folded
  THEN [spans |-> Append(spans, [text |-> Placeholder, tags |-> ""]), ptr |-> ptr]
  ELSE LET w == rangeWalk(docToString, span, highlights, ptr, span.from, spans)
       IN [spans |-> IF w.position # span.to
                     THEN Append(w.spans, [text |-> slice(docToString, w.position, span.to),
                                           tags |-> ""])
                     ELSE w.spans,
           ptr |-> w.ptr]

\* lines 237-290: all spans of one line, from span index i on
RECURSIVE mergeLine(_, _, _, _, _, _)
mergeLine(docToString, line, highlights, ptr, i, spans) ==
  IF i > Len(line) THEN [spans |-> spans, ptr |-> ptr]
  ELSE LET r == mergeSpan(docToString, line[i], highlights, ptr, spans)
       IN mergeLine(docToString, line, highlights, r.ptr, i + 1, r.spans)

nextStartLine_afterWritten(startLine, index) == startLine + index + 1
\* line 299: startLine += index
nextStartLine(startLine, index) == startLine + index

\* lines 236-305: the for loop of one call of updateMapCallback. It writes
\* the lines startLine+1 .. of state.field(LinesState); stopAfter is the
\* number of lines written when deadline.timeRemaining() <= 0 is first seen
\* (0: the deadline is absent or never exhausted in this call).
\* m is the cache; the result also tells whether a continuation was scheduled.
RECURSIVE mergeLoop(_, _, _, _, _, _, _, _)
mergeLoop(docToString, lines, highlights, startLine, stopAfter, index, ptr, m) ==
  IF startLine + index + 1 > Len(lines)
  THEN [map |-> m, ptr |-> ptr, startLine |-> startLine, rescheduled |-> FALSE,
        written |-> index]
  ELSE LET r == mergeLine(docToString, lines[startLine + index + 1], highlights, ptr, 1, <<>>)
           lineNumber == startLine + index + 1
           m2 == mapSet(m, lineNumber, r.spans)
       IN IF stopAfter = index + 1
          THEN [map |-> m2, ptr |-> r.ptr, startLine |-> nextStartLine(startLine, index),
                rescheduled |-> TRUE, written |-> index + 1]
          ELSE mergeLoop(docToString, lines, highlights, startLine, stopAfter,
                         index + 1, r.ptr, m2)

updateMapCallback(docToString, lines, highlights, startLine, ptr, stopAfter, m) ==
  mergeLoop(docToString, lines, highlights, startLine, stopAfter, 0, ptr, m)

\* the cache a single pass without deadline leaves (updateMapCallback() at line 310)
blockingMerge(docToString, lines, highlights, m) ==
  updateMapCallback(docToString, lines, highlights, 0, 1, 0, m).map

(***************************************************************************)
(* SpecMerge: one updateMap over every small input, cut into chunks        *)
(***************************************************************************)
Tags == <<"kw", "id", "str", "num">>

DocsOfLen(n) ==
  { [i \in 1..n |-> IF i \in B THEN NL ELSE Letters[i]] : B \in SUBSET (1..n) }

MergeDocs == UNION { DocsOfLen(n) : n \in 0..MaxDocLen }

\* folds lying inside one line of doc, and no fold
FoldsOf(doc) ==
  {NoFold} \cup
  { [from |-> a, to |-> b] : <<a, b>> \in
      { p \in (0..Len(doc)) \X (0..Len(doc)) :
          /\ p[1] < p[2]
          /\ \E n \in 1..docLines(doc) :
               docLine(doc, n).from <= p[1] /\ p[2] <= docLine(doc, n).to } }

\* sorted, non-overlapping, non-empty ranges within 0..len; the i-th carries Tags[i]
HighlightStreams(len) ==
  UNION { { [i \in 1..k |-> [from |-> b[i][1], to |-> b[i][2], tags |-> Tags[i]]] :
              b \in { c \in [1..k -> (0..len) \X (0..len)] :
                        /\ \A i \in 1..k : c[i][1] < c[i][2]
                        /\ \A i \in 1..(k - 1) : c[i][2] <= c[i + 1][1] } }
          : k \in 0..MaxHighlights }

MergeInputs ==
  UNION { UNION { { [doc |-> d, lines |-> LinesState(d, f), highlights |-> hs] :
                      hs \in HighlightStreams(Len(d)) }
                  : f \in FoldsOf(d) }
          : d \in MergeDocs }

NoMerge == [doc |-> <<>>, lines |-> <<>>, highlights |-> <<>>]
NoWindow == [top |-> 0, bottom |-> 0]
NoWindowInput == [L |-> 0, vpTop |-> 0, vpBottom |-> 0, sizeRatio |-> 0, pixelMultiplier |-> 0]

MergeIdle ==
  /\ mIn = NoMerge /\ mStartLine = 0 /\ mPtr = 1 /\ mMap = EmptyMap
  /\ mPc = "idle" /\ mChunks = 0

WindowIdle == wIn = NoWindowInput /\ wOut = NoWindow

\* updateMap(state, highlights, deadline): lines 230-233 set up the closure
InitMerge ==
  /\ mIn \in MergeInputs
  /\ mStartLine = 0
  /\ mPtr = 1
  /\ mMap = EmptyMap
  /\ mPc = "pending"
  /\ mChunks = 0

\* a call of updateMapCallback whose deadline is exhausted after `written`
\* lines: lines 296-303 record startLine and schedule the continuation
MergeChunk ==
  /\ mPc = "pending"
  /\ \E written \in 1..(Len(mIn.lines) - mStartLine) :
       LET r == updateMapCallback(mIn.doc, mIn.lines, mIn.highlights,
                                  mStartLine, mPtr, written, mMap)
       IN /\ mMap' = r.map
          /\ mPtr' = r.ptr
          /\ mStartLine' = r.startLine
  /\ mChunks' = Min(mChunks + 1, MaxChunks)
  /\ UNCHANGED <<mIn, mPc, engineVars, windowVars, selVars, loopVars, overlayVars>>

\* a call of updateMapCallback that reaches the last line with time remaining
\* (or without a deadline: the blocking call of line 310)
MergeFinish ==
  /\ mPc = "pending"
  /\ LET r == updateMapCallback(mIn.doc, mIn.lines, mIn.highlights,
                                mStartLine, mPtr, 0, mMap)
     IN /\ mMap' = r.map
        /\ mPtr' = r.ptr
        /\ mStartLine' = r.startLine
  /\ mPc' = "done"
  /\ mChunks' = Min(mChunks + 1, MaxChunks)
  /\ UNCHANGED <<mIn, engineVars, windowVars, selVars, loopVars, overlayVars>>

NextMerge == MergeChunk \/ MergeFinish

(***************************************************************************)
(* The viewport projection of updateImpl (part_000 lines 143-156).         *)
(* vpScroll and mmLineRatio are fractions in the code; they are kept exact *)
(* here as numerator / denominator with the denominator                    *)
(* state.doc.lines - vpLineCount, which is positive whenever               *)
(* vpLineBottom <= state.doc.lines.                                        *)
(***************************************************************************)
SizeRatio == 4          \* Scale.SizeRatio
PixelMultiplier == 2    \* Scale.PixelMultiplier

\* Math.floor(n / d) for d > 0
floorDiv(n, d) == n \div d

\* line 145
vpLineCount(vpLineTop, vpLineBottom) == vpLineBottom - vpLineTop

\* line 149
mmLineCount(vpLineTop, vpLineBottom, sr, pm) ==
  vpLineCount(vpLineTop, vpLineBottom) * sr * pm

mmLineTop_unclamped(L, vpLineTop, vpLineBottom, sr, pm) ==
  LET d == L - vpLineCount(vpLineTop, vpLineBottom)
      c == mmLineCount(vpLineTop, vpLineBottom, sr, pm)
  IN floorDiv(vpLineTop * d - vpLineTop * c, d)
\* line 152: Math.max(1, Math.floor(vpLineTop - mmLineRatio)),
\* mmLineRatio = (vpLineTop / d) * c
mmLineTop(L, vpLineTop, vpLineBottom, sr, pm) ==
  LET d == L - vpLineCount(vpLineTop, vpLineBottom)
      c == mmLineCount(vpLineTop, vpLineBottom, sr, pm)
  IN Max(1, floorDiv(vpLineTop * d - vpLineTop * c, d))

\* lines 153-156: Math.min(vpLineBottom + Math.floor(mmLineCount - mmLineRatio), lines)
mmLineBottom(L, vpLineTop, vpLineBottom, sr, pm) ==
  LET d == L - vpLineCount(vpLineTop, vpLineBottom)
      c == mmLineCount(vpLineTop, vpLineBottom, sr, pm)
  IN Min(vpLineBottom + floorDiv(c * d - vpLineTop * c, d), L)

WindowInputs ==
  { [L |-> l, vpTop |-> t, vpBottom |-> b, sizeRatio |-> sr, pixelMultiplier |-> pm] :
      l \in 1..MaxLines, t \in 1..MaxLines, b \in 1..MaxLines,
      sr \in 1..MaxScale, pm \in 1..MaxScale }

InitWindow ==
  /\ wIn \in { i \in WindowInputs : i.vpTop < i.vpBottom /\ i.vpBottom <= i.L }
  /\ wOut = NoWindow

ComputeWindow ==
  /\ wOut = NoWindow
  /\ wOut' = [top    |-> mmLineTop(wIn.L, wIn.vpTop, wIn.vpBottom,
                                   wIn.sizeRatio, wIn.pixelMultiplier),
              bottom |-> mmLineBottom(wIn.L, wIn.vpTop, wIn.vpBottom,
                                      wIn.sizeRatio, wIn.pixelMultiplier)]
  /\ UNCHANGED <<wIn, engineVars, mergeVars, selVars, loopVars, overlayVars>>

NextWindow == ComputeWindow

(***************************************************************************)
(* SelectionState (src/state/selections.ts).                               *)
(* The operators take and return the record s of the object's fields       *)
(* [map, _drawInfo, _themeClasses].                                        *)
(***************************************************************************)
\* a Selection of the cache (line 6)
Selection(from, to, extends) == [from |-> from, to |-> to, extends |-> extends]

spanSelection_inclusive(span, range) ==
  Selection(Max(span.from, range.from) - span.from,
            Min(span.to, range.to) - span.from,
            range.to >= span.to)
\* lines 96-100: the selection of `range` in `span`
spanSelection(span, range) ==
  Selection(Max(span.from, range.from) - span.from,
            Min(span.to, range.to) - span.from,
            range.to > span.to)

touches_never(lastSelection, selection) == FALSE
\* line 103: lastSelection.to === selection.from
touches(lastSelection, selection) == lastSelection.to = selection.from

\* lines 102-114: join the selection to the last one of the line, or push it
pushSelection(selections, selection) ==
  IF selections # <<>> /\ touches(selections[Len(selections)], selection)
  THEN [selections EXCEPT ![Len(selections)] =
          [@ EXCEPT !.to = selection.to, !.extends = selection.extends]]
  ELSE Append(selections, selection)

\* lines 77-126: the do/while of one span. selectionIndex counts from 0 as in
\* the code; `continue` in a do/while goes to the test of lines 124-125.
\* spanBody is one run of the body, spanWhile the test after it.
RECURSIVE spanBody(_, _, _, _)
RECURSIVE spanWhile(_, _, _, _)
spanBody(span, ranges, selectionIndex, selections) ==
  IF selectionIndex >= Len(ranges)
  THEN spanWhile(span, ranges, selectionIndex, selections)
  ELSE IF span.to < ranges[selectionIndex + 1].from
  THEN spanWhile(span, ranges, selectionIndex, selections)
  ELSE IF ranges[selectionIndex + 1].from = ranges[selectionIndex + 1].to
  THEN spanWhile(span, ranges, selectionIndex + 1, selections)
  ELSE IF spanSelection(span, ranges[selectionIndex + 1]).extends
  THEN [selections |-> pushSelection(selections,
                                     spanSelection(span, ranges[selectionIndex + 1])),
        selectionIndex |-> selectionIndex]
  ELSE spanWhile(span, ranges, selectionIndex + 1,
                 pushSelection(selections, spanSelection(span, ranges[selectionIndex + 1])))

spanWhile(span, ranges, selectionIndex, selections) ==
  IF selectionIndex < Len(ranges) /\ span.to >= ranges[selectionIndex + 1].from
  THEN spanBody(span, ranges, selectionIndex, selections)
  ELSE [selections |-> selections, selectionIndex |-> selectionIndex]

\* lines 76-127: the spans of one line, from span i on
RECURSIVE lineSelections(_, _, _, _, _)
lineSelections(line, ranges, selectionIndex, i, selections) ==
  IF i > Len(line)
  THEN [selections |-> selections, selectionIndex |-> selectionIndex]
  ELSE LET r == spanBody(line[i], ranges, selectionIndex, selections)
       IN lineSelections(line, ranges, r.selectionIndex, i + 1, r.selections)

\* lines 73-137: the lines of state.field(LinesState) from `index` on; a line
\* without selections is not stored (lines 130-132)
RECURSIVE linesLoop(_, _, _, _, _)
linesLoop(lines, ranges, index, selectionIndex, m) ==
  IF index >= Len(lines) THEN m
  ELSE LET r == lineSelections(lines[index + 1], ranges, selectionIndex, 1, <<>>)
       IN linesLoop(lines, ranges, index + 1, r.selectionIndex,
                    IF r.selections = <<>> THEN m
                    ELSE mapSet(m, index + 1, r.selections))

NoDrawInfo == ""      \* _drawInfo undefined

mapClear_missing(m) == m
\* line 62: this.map.clear()
mapClear(m) == EmptyMap

\* update.docChanged, update.selectionSet
selDocChanged(ev) == ev.state.doc # ev.startState.doc
selectionSet(ev) == ev.state.ranges # ev.startState.ranges

\* lines 36-56: every path returns true
selShouldUpdate(s, ev, cl) ==
  IF selDocChanged(ev) THEN TRUE
  ELSE IF selectionSet(ev) THEN TRUE
  ELSE IF s._themeClasses # cl THEN TRUE
  ELSE TRUE

\* lines 65-68
selThemeRefresh(s, cl) ==
  IF s._themeClasses # cl
  THEN [s EXCEPT !._drawInfo = NoDrawInfo, !._themeClasses = cl]
  ELSE s

\* lines 70-137
selRecompute(s, state) ==
  [s EXCEPT !.map = linesLoop(LinesState(state.doc, state.fold), state.ranges, 0, 0, @)]

\* lines 58-138
selUpdate(s, ev, cl) ==
  IF ~selShouldUpdate(s, ev, cl) THEN s
  ELSE selRecompute(selThemeRefresh([s EXCEPT !.map = mapClear(@)], cl), ev.state)

(***************************************************************************)
(* SpecSelect: SelectionState under update events                          *)
(***************************************************************************)
SelClassLists == {"cm-editor", "cm-editor dark"}

\* EditorSelection.ranges: sorted ranges with from <= to, normalized by the
\* editor: no two overlap, and an empty range does not touch the range
\* before it
SelectionRanges(len) ==
  UNION { { [i \in 1..k |-> [from |-> b[i][1], to |-> b[i][2]]] :
              b \in { c \in [1..k -> (0..len) \X (0..len)] :
                        /\ \A i \in 1..k : c[i][1] <= c[i][2]
                        /\ \A i \in 1..(k - 1) :
                             /\ c[i][2] <= c[i + 1][1]
                             /\ (c[i + 1][1] = c[i + 1][2] => c[i][2] < c[i + 1][1]) } }
          : k \in 1..MaxRanges }

SelDocs == UNION { DocsOfLen(n) : n \in 0..MaxSelDocLen }

\* the EditorStates an update event can carry
SelInputs ==
  UNION { UNION { { [doc |-> d, fold |-> f, ranges |-> rs] :
                      rs \in SelectionRanges(Len(d)) }
                  : f \in FoldsOf(d) }
          : d \in SelDocs }

\* the empty document with the cursor at its start
SelStart == [doc |-> <<>>, fold |-> NoFold, ranges |-> <<[from |-> 0, to |-> 0]>>]

SelThis == [map |-> selMap, _drawInfo |-> sel_drawInfo, _themeClasses |-> sel_themeClasses]

SelBecomes(s) ==
  /\ selMap' = s.map
  /\ sel_drawInfo' = s._drawInfo
  /\ sel_themeClasses' = s._themeClasses

\* the state after `new SelectionState(view)` (lines 29-34): getDrawInfo has
\* resolved the style under the class list of the moment
InitSelect ==
  /\ selIn = SelStart
  /\ selClassList \in SelClassLists
  /\ selMap = EmptyMap
  /\ sel_drawInfo = selClassList
  /\ sel_themeClasses = selClassList
  /\ selUpdates = 0
  /\ selDropped = FALSE

\* SelectionState at rest, for the other specifications
SelectIdle == InitSelect /\ selClassList = "cm-editor"

\* what an update event brings: another EditorState, or another class list
SelEvents ==
  { [state |-> st, classList |-> selClassList] : st \in SelInputs }
    \cup { [state |-> selIn, classList |-> cl] : cl \in SelClassLists }

\* the view delivers a ViewUpdate to the plugin: SelectionState.update(update)
SelUpdate ==
  /\ selUpdates < MaxSelUpdates
  /\ \E e \in SelEvents :
       /\ selIn' = e.state
       /\ selClassList' = e.classList
       /\ SelBecomes(selUpdate(SelThis, [startState |-> selIn, state |-> e.state],
                               e.classList))
  /\ selUpdates' = selUpdates + 1
  /\ selDropped' = \E n \in DOMAIN selMap : n \notin DOMAIN selMap'
  /\ UNCHANGED <<engineVars, mergeVars, windowVars, loopVars, overlayVars>>

NextSelect == SelUpdate

(***************************************************************************)
(* SpecSelectLoop: one run of the loops of SelectionState.update (lines    *)
(* 72-137), one step per statement group, over every small document, fold  *)
(* layout and range list, the empty list and lists that are not sorted     *)
(* included.                                                               *)
(***************************************************************************)
skipEmptyRange_stay(selectionIndex) == selectionIndex
\* line 90: selectionIndex++ of a 0-length selection
skipEmptyRange(selectionIndex) == selectionIndex + 1

\* lines 78-122: one run of the body of the do/while. broke tells that the
\* body left through the break of line 118; otherwise the body ended or met a
\* continue, and the test of lines 124-125 follows.
doBody(span, ranges, selectionIndex, selections) ==
  IF selectionIndex >= Len(ranges)
  THEN [selectionIndex |-> selectionIndex, selections |-> selections, broke |-> FALSE]
  ELSE IF span.to < ranges[selectionIndex + 1].from
  THEN [selectionIndex |-> selectionIndex, selections |-> selections, broke |-> FALSE]
  ELSE IF ranges[selectionIndex + 1].from = ranges[selectionIndex + 1].to
  THEN [selectionIndex |-> skipEmptyRange(selectionIndex), selections |-> selections,
        broke |-> FALSE]
  ELSE IF spanSelection(span, ranges[selectionIndex + 1]).extends
  THEN [selectionIndex |-> selectionIndex,
        selections |-> pushSelection(selections,
                                     spanSelection(span, ranges[selectionIndex + 1])),
        broke |-> TRUE]
  ELSE [selectionIndex |-> selectionIndex + 1,
        selections |-> pushSelection(selections,
                                     spanSelection(span, ranges[selectionIndex + 1])),
        broke |-> FALSE]

\* lines 123-126: the test of the do/while
doWhile(span, ranges, selectionIndex) ==
  selectionIndex < Len(ranges) /\ span.to >= ranges[selectionIndex + 1].from

\* lines 77-126: one iteration, the body and, unless it broke, the test
doIteration(r, span, ranges) ==
  [selectionIndex |-> r.selectionIndex, selections |-> r.selections,
   again |-> ~r.broke /\ doWhile(span, ranges, r.selectionIndex)]

\* any list of ranges with from <= to, in any order, the empty list included
LoopRanges(len) ==
  UNION { [1..k -> { [from |-> a, to |-> b] : <<a, b>> \in
                       { p \in (0..len) \X (0..len) : p[1] <= p[2] } }]
          : k \in 0..MaxLoopRanges }

LoopDocs == UNION { DocsOfLen(n) : n \in 0..MaxLoopDocLen }

LoopInputs ==
  UNION { UNION { { [doc |-> d, fold |-> f, ranges |-> rs] : rs \in LoopRanges(Len(d)) }
                  : f \in FoldsOf(d) }
          : d \in LoopDocs }

NoLoop == [doc |-> <<>>, fold |-> NoFold, ranges |-> <<>>]

LoopIdle ==
  /\ loopIn = NoLoop /\ loopPc = "idle" /\ loopIndex = 0 /\ loopSpan = 0
  /\ loopCursor = 0 /\ loopSelections = <<>> /\ loopMap = EmptyMap /\ loopIter = 0

\* state.field(LinesState)
loopLines == LinesState(loopIn.doc, loopIn.fold)

\* lines 62-72: the cache is cleared and selectionIndex is 0
InitLoop ==
  /\ loopIn \in LoopInputs
  /\ loopPc = "lines"
  /\ loopIndex = 0
  /\ loopSpan = 0
  /\ loopCursor = 0
  /\ loopSelections = <<>>
  /\ loopMap = EmptyMap
  /\ loopIter = 0

\* lines 73-74: the for loop takes the next line
LoopLine ==
  /\ loopPc = "lines"
  /\ loopIndex < Len(loopLines)
  /\ loopSelections' = <<>>
  /\ loopSpan' = 1
  /\ loopPc' = "spans"
  /\ UNCHANGED <<loopIn, loopIndex, loopCursor, loopMap, loopIter,
                 engineVars, mergeVars, windowVars, selVars, overlayVars>>

\* line 76: the for loop takes the next span and enters the do/while
LoopSpan ==
  /\ loopPc = "spans"
  /\ loopSpan <= Len(loopLines[loopIndex + 1])
  /\ loopPc' = "do"
  /\ loopIter' = 0
  /\ UNCHANGED <<loopIn, loopIndex, loopSpan, loopCursor, loopSelections, loopMap,
                 engineVars, mergeVars, windowVars, selVars, overlayVars>>

\* lines 77-126: one iteration of the do/while
LoopIterate ==
  /\ loopPc = "do"
  /\ LET span == loopLines[loopIndex + 1][loopSpan]
         r == doIteration(doBody(span, loopIn.ranges, loopCursor, loopSelections),
                          span, loopIn.ranges)
     IN /\ loopCursor' = r.selectionIndex
        /\ loopSelections' = r.selections
        /\ loopPc' = IF r.again THEN "do" ELSE "spans"
        /\ loopSpan' = IF r.again THEN loopSpan ELSE loopSpan + 1
  /\ loopIter' = loopIter + 1
  /\ UNCHANGED <<loopIn, loopIndex, loopMap,
                 engineVars, mergeVars, windowVars, selVars, overlayVars>>

\* lines 129-136: the spans of the line are done; the line is stored unless
\* it has no selection
LoopStore ==
  /\ loopPc = "spans"
  /\ loopSpan > Len(loopLines[loopIndex + 1])
  /\ loopMap' = IF loopSelections = <<>> THEN loopMap
                ELSE mapSet(loopMap, loopIndex + 1, loopSelections)
  /\ loopIndex' = loopIndex + 1
  /\ loopPc' = "lines"
  /\ UNCHANGED <<loopIn, loopSpan, loopCursor, loopSelections, loopIter,
                 engineVars, mergeVars, windowVars, selVars, overlayVars>>

\* line 138: the lines are done, update returns
LoopReturn ==
  /\ loopPc = "lines"
  /\ loopIndex >= Len(loopLines)
  /\ loopPc' = "done"
  /\ UNCHANGED <<loopIn, loopIndex, loopSpan, loopCursor, loopSelections, loopMap,
                 loopIter, engineVars, mergeVars, windowVars, selVars, overlayVars>>

NextSelectLoop == LoopLine \/ LoopSpan \/ LoopIterate \/ LoopStore \/ LoopReturn

(***************************************************************************)
(* OverlayView (src/overlay.ts).                                           *)
(* Pixel quantities are fractions [n, d] with d > 0 in lowest terms; the   *)
(* arithmetic of the handlers is carried out on them exactly.              *)
(* The operators take and return the record o of the view's fields and of  *)
(* the DOM state they read and write.                                      *)
(***************************************************************************)
RECURSIVE gcd(_, _)
gcd(a, b) == IF b = 0 THEN a ELSE gcd(b, a % b)

abs(n) == IF n < 0 THEN 0 - n ELSE n

\* the fraction n / d in lowest terms, d # 0
frac(n, d) ==
  LET g == gcd(abs(n), abs(d))
      sgn == IF d < 0 THEN 0 - 1 ELSE 1
  IN [n |-> (sgn * n) \div g, d |-> (sgn * d) \div g]

int(i) == [n |-> i, d |-> 1]
qAdd(a, b) == frac(a.n * b.d + b.n * a.d, a.d * b.d)
qSub(a, b) == frac(a.n * b.d - b.n * a.d, a.d * b.d)
qMul(a, b) == frac(a.n * b.n, a.d * b.d)
qDiv(a, b) == frac(a.n * b.d, a.d * b.n)
qLess(a, b) == a.n * b.d < b.n * a.d
qMax(a, b) == IF qLess(a, b) THEN b ELSE a
qMin(a, b) == IF qLess(b, a) THEN b ELSE a

\* ~~x: truncation towards zero
truncate(a) == IF a.n >= 0 THEN a.n \div a.d ELSE 0 - ((0 - a.n) \div a.d)

\* Math.round(x): floor(x + 1/2)
round(a) == (2 * a.n + a.d) \div (2 * a.d)

\* lines 6-7: SCALE * 2 * 1.4
SCALE == 3
RATIO == frac(SCALE * 2 * 14, 10)

Active == "cm-minimap-overlay-active"
MouseOver == "cm-minimap-overlay-mouse-over"

\* the geometry of the editor: view.dom.clientHeight and
\* view.scrollDOM.clientHeight, and the top of the minimap in the window
ClientHeight == 210
ContainerTop == 0

\* a listener as addEventListener sees it: the function object tells two
\* listeners of one target and type apart. Function.prototype.bind returns a
\* new function object.
Listener(target, type, fn) == [target |-> target, type |-> type, fn |-> fn]
bind(fn) == <<"bound", fn>>

\* lines 65-67
registered ==
  { Listener("container", "mousedown", bind("onMouseDown")),
    Listener("window", "mouseup", bind("onMouseUp")),
    Listener("window", "mousemove", bind("onMouseMove")) }

\* lines 241-243
unregistered ==
  { Listener("container", "mousedown", "onMouseDown"),
    Listener("window", "mouseup", "onMouseUp"),
    Listener("window", "mousemove", "onMouseMove") }

\* the browser dispatches an event of `type` at `target` to the listeners
\* registered there
listens(o, target, type) ==
  \E l \in o.listeners : l.target = target /\ l.type = type

\* lines 260-278
currentTopFromScrollHeight(clientHeight, scrollTop, scrollHeight) ==
  LET maxScrollTop == int(scrollHeight - clientHeight)
      topForNonOverflowing == qDiv(scrollTop, RATIO)
      height == qDiv(int(clientHeight), RATIO)
      maxTop == qSub(int(clientHeight), height)
      scrollRatio == qDiv(scrollTop, maxScrollTop)
      topForOverflowing == qMul(maxTop, scrollRatio)
  IN Min(truncate(topForOverflowing), truncate(topForNonOverflowing))

\* lines 94-97
computeHeight(o) == [o EXCEPT !.height = qDiv(int(ClientHeight), RATIO)]

computeTopGuard_always(isDragging) == TRUE
\* line 100
computeTopGuard(isDragging) == ~isDragging

\* lines 99-108
computeTop(o) ==
  IF computeTopGuard(o._isDragging)
  THEN [o EXCEPT !.top = int(currentTopFromScrollHeight(ClientHeight, o.scrollTop,
                                                        o.scrollHeight))]
  ELSE o

\* lines 110-116
setShowOverlay(o, showOverlay) ==
  [o EXCEPT !.classList = IF showOverlay = "mouse-over" THEN @ \cup {MouseOver}
                          ELSE @ \ {MouseOver}]

\* scrollDOM.scrollTop = v: the browser keeps the position within
\* 0 .. scrollHeight - clientHeight and fires a scroll event when it changed;
\* the plugin's scroll handler (lines 248-252) posts computeTop on the next
\* animation frame while the plugin is installed
clampScroll(v, scrollHeight) == qMax(int(0), qMin(v, int(scrollHeight - ClientHeight)))

setScrollTop(o, v) ==
  [o EXCEPT !.scrollTop = clampScroll(v, o.scrollHeight),
            !.frame = @ \/ (~o.destroyed /\ clampScroll(v, o.scrollHeight) # o.scrollTop)]

\* lines 133-144: a press beside the overlay scrolls the editor
scrollToPress(o, clientY, targetTop) ==
  LET deltaY == qMul(int(clientY - targetTop), RATIO)
      scrollRatio == qDiv(o.scrollTop, int(o.scrollHeight - ClientHeight))
      visibleRange == qSub(qMul(int(ClientHeight), RATIO), int(ClientHeight))
      visibleTop == qMul(visibleRange, scrollRatio)
      top == qMax(int(0), qSub(o.scrollTop, visibleTop))
  IN setScrollTop(o, qSub(qAdd(top, deltaY), qDiv(int(ClientHeight), int(2))))

\* lines 118-145; target is "dom" (the overlay) or "container"
onMouseDown(o, button, clientY, target) ==
  IF button = 2 THEN o
  ELSE IF target = "dom"
  THEN [o EXCEPT !._dragStartY = <<clientY>>,
                 !._isDragging = TRUE,
                 !.classList = @ \cup {Active}]
  ELSE scrollToPress(o, clientY, ContainerTop)

\* lines 147-154
onMouseUp(o) ==
  IF o._isDragging
  THEN [o EXCEPT !._dragStartY = <<>>,
                 !._isDragging = FALSE,
                 !.classList = @ \ {Active}]
  ELSE o

\* line 165: !this._dragStartY holds for undefined and for 0
falsy(y) == y = <<>> \/ y[1] = 0

\* dom.getBoundingClientRect(): an element that is not in the document has
\* an empty rectangle at 0
domRect(o) ==
  IF o.attached
  THEN [y |-> qAdd(int(ContainerTop), o.top), height |-> o.height]
  ELSE [y |-> int(0), height |-> int(0)]

\* lines 205-237: the drag moves the editor and the overlay by deltaY
dragBy(o, deltaY) ==
  LET maxTopNonOverflowing == qDiv(int(o.scrollHeight - ClientHeight), RATIO)
      maxTopOverflowing == qSub(int(ClientHeight), qDiv(int(ClientHeight), RATIO))
      change == qAdd(o.top, int(deltaY))
      relativeToMax == qDiv(change, maxTopOverflowing)
      scrollPosOverflowing == qMul(int(o.scrollHeight - ClientHeight), relativeToMax)
      scrollPosNonOverflowing == qMul(change, RATIO)
      top == qMin(qMax(int(0), change), qMin(maxTopOverflowing, maxTopNonOverflowing))
  IN [setScrollTop(o, qMax(scrollPosOverflowing, scrollPosNonOverflowing))
        EXCEPT !.top = top]

\* lines 170-203: o is the view with _dragStartY already set to clientY
dragFrom(o, startY, clientY) ==
  LET deltaY == clientY - startY
      movingUp == deltaY < 0
      movingDown == deltaY > 0
      canvasAbsTop == domRect(o).y
      canvasAbsBot == qAdd(canvasAbsTop, domRect(o).height)
      atTop == o.scrollTop = int(0)
      atBottom == round(o.scrollTop) >= o.scrollHeight - ClientHeight
  IN IF (atTop /\ movingUp) \/ (atTop /\ qLess(int(clientY), canvasAbsTop)) THEN o
     ELSE IF (atBottom /\ movingDown) \/ (atBottom /\ qLess(canvasAbsBot, int(clientY)))
     THEN o
     ELSE dragBy(o, deltaY)

\* lines 156-238
onMouseMove(o, clientY) ==
  IF ~o._isDragging THEN o
  ELSE IF falsy(o._dragStartY) THEN [o EXCEPT !._dragStartY = <<clientY>>]
  ELSE dragFrom([o EXCEPT !._dragStartY = <<clientY>>], o._dragStartY[1], clientY)

\* lines 80-92; the geometry change has already given the editor its new
\* scrollHeight
overlayUpdate(o, showOverlay, prevShowOverlay, geometryChanged) ==
  LET shown == IF showOverlay # prevShowOverlay THEN setShowOverlay(o, showOverlay) ELSE o
  IN IF geometryChanged THEN computeTop(computeHeight(shown)) ELSE shown

\* lines 240-245
destroy(o) ==
  [o EXCEPT !.listeners = @ \ unregistered, !.attached = FALSE, !.destroyed = TRUE]

(***************************************************************************)
(* SpecOverlay: the overlay under mouse, scroll and update events          *)
(***************************************************************************)
ShowOverlays == {"always", "mouse-over"}
\* a document a little longer than the editor, and one so long that the
\* overlay reaches the bottom of the minimap before the editor reaches its end
ScrollHeights == {2 * ClientHeight, ClientHeight + 3108}
Buttons == {0, 2}
YStep == 10
ClientYs == { YStep * i : i \in 0..MaxClientY }

\* the element under the pointer at clientY: the overlay where its rectangle
\* is, the container around it elsewhere
targetAt(o, clientY) ==
  IF ~qLess(int(clientY), domRect(o).y)
       /\ qLess(int(clientY), qAdd(domRect(o).y, domRect(o).height))
  THEN "dom"
  ELSE "container"
\* positions the user scrolls the editor to
ScrollTops(scrollHeight) == {0, ClientHeight \div 2, scrollHeight - ClientHeight}

OvThis ==
  [_isDragging |-> ov_isDragging, _dragStartY |-> ov_dragStartY,
   classList |-> ovClassList, top |-> ovTop, height |-> ovHeight,
   scrollTop |-> ovScrollTop, scrollHeight |-> ovScrollHeight,
   listeners |-> ovListeners, attached |-> ovAttached, destroyed |-> ovDestroyed,
   frame |-> ovFrame]

OvBecomes(o) ==
  /\ ov_isDragging' = o._isDragging
  /\ ov_dragStartY' = o._dragStartY
  /\ ovClassList' = o.classList
  /\ ovTop' = o.top
  /\ ovHeight' = o.height
  /\ ovScrollTop' = o.scrollTop
  /\ ovScrollHeight' = o.scrollHeight
  /\ ovListeners' = o.listeners
  /\ ovAttached' = o.attached
  /\ ovDestroyed' = o.destroyed
  /\ ovFrame' = o.frame

OvLast(type, button, target) == [type |-> type, button |-> button, target |-> target]

\* lines 50-78: the fields and the DOM before the constructor computes
\* anything, for an editor scrolled to scrollTop
unconstructed(scrollTop, scrollHeight) ==
  [_isDragging |-> FALSE, _dragStartY |-> <<>>, classList |-> {},
   top |-> int(0), height |-> int(0),
   scrollTop |-> int(scrollTop), scrollHeight |-> scrollHeight,
   listeners |-> registered, attached |-> TRUE, destroyed |-> FALSE, frame |-> FALSE]

\* lines 53-78
constructed(scrollTop, scrollHeight, showOverlay) ==
  setShowOverlay(computeTop(computeHeight(unconstructed(scrollTop, scrollHeight))),
                 showOverlay)

\* no overlay: the variables of SpecOverlay while the other specifications run
OverlayIdle ==
  /\ ov_isDragging = FALSE /\ ov_dragStartY = <<>> /\ ovClassList = {}
  /\ ovTop = int(0) /\ ovHeight = int(0) /\ ovScrollTop = int(0)
  /\ ovScrollHeight = 2 * ClientHeight /\ ovShowOverlay = "always"
  /\ ovListeners = {} /\ ovAttached = FALSE /\ ovDestroyed = FALSE
  /\ ovFrame = FALSE /\ ovEvents = 0 /\ ovLast = OvLast("idle", 0, "")

\* the state after the constructor
InitOverlay ==
  /\ ovShowOverlay \in ShowOverlays
  /\ ovScrollHeight \in ScrollHeights
  /\ \E st \in ScrollTops(ovScrollHeight) :
       /\ ovScrollTop = int(st)
       /\ ov_isDragging = constructed(st, ovScrollHeight, ovShowOverlay)._isDragging
       /\ ov_dragStartY = constructed(st, ovScrollHeight, ovShowOverlay)._dragStartY
       /\ ovClassList = constructed(st, ovScrollHeight, ovShowOverlay).classList
       /\ ovTop = constructed(st, ovScrollHeight, ovShowOverlay).top
       /\ ovHeight = constructed(st, ovScrollHeight, ovShowOverlay).height
       /\ ovListeners = constructed(st, ovScrollHeight, ovShowOverlay).listeners
       /\ ovAttached = constructed(st, ovScrollHeight, ovShowOverlay).attached
       /\ ovDestroyed = constructed(st, ovScrollHeight, ovShowOverlay).destroyed
       /\ ovFrame = constructed(st, ovScrollHeight, ovShowOverlay).frame
  /\ ovEvents = 0
  /\ ovLast = OvLast("init", 0, "")

\* a mouse button goes down over the minimap; an element that is not in the
\* document is under no pointer
MouseDown ==
  /\ ovEvents < MaxOverlayEvents
  /\ ovAttached
  /\ listens(OvThis, "container", "mousedown")
  /\ \E button \in Buttons, clientY \in ClientYs :
       /\ OvBecomes(onMouseDown(OvThis, button, clientY, targetAt(OvThis, clientY)))
       /\ ovLast' = OvLast("mousedown", button, targetAt(OvThis, clientY))
  /\ ovEvents' = ovEvents + 1
  /\ UNCHANGED <<ovShowOverlay, engineVars, mergeVars, windowVars, selVars, loopVars>>

\* a mouse button goes up anywhere in the window
MouseUp ==
  /\ ovEvents < MaxOverlayEvents
  /\ listens(OvThis, "window", "mouseup")
  /\ OvBecomes(onMouseUp(OvThis))
  /\ ovLast' = OvLast("mouseup", 0, "")
  /\ ovEvents' = ovEvents + 1
  /\ UNCHANGED <<ovShowOverlay, engineVars, mergeVars, windowVars, selVars, loopVars>>

\* the mouse moves anywhere in the window
MouseMove ==
  /\ ovEvents < MaxOverlayEvents
  /\ listens(OvThis, "window", "mousemove")
  /\ \E clientY \in ClientYs : OvBecomes(onMouseMove(OvThis, clientY))
  /\ ovLast' = OvLast("mousemove", 0, "")
  /\ ovEvents' = ovEvents + 1
  /\ UNCHANGED <<ovShowOverlay, engineVars, mergeVars, windowVars, selVars, loopVars>>

\* the user scrolls the editor
Scroll ==
  /\ ovEvents < MaxOverlayEvents
  /\ \E st \in ScrollTops(ovScrollHeight) :
       /\ int(st) # ovScrollTop
       /\ OvBecomes(setScrollTop(OvThis, int(st)))
  /\ ovLast' = OvLast("scroll", 0, "")
  /\ ovEvents' = ovEvents + 1
  /\ UNCHANGED <<ovShowOverlay, engineVars, mergeVars, windowVars, selVars, loopVars>>

\* lines 249-251: the animation frame runs the posted computeTop
Frame ==
  /\ ovFrame
  /\ OvBecomes(computeTop([OvThis EXCEPT !.frame = FALSE]))
  /\ ovLast' = OvLast("frame", 0, "")
  /\ UNCHANGED <<ovShowOverlay, ovEvents, engineVars, mergeVars, windowVars, selVars,
                 loopVars>>

\* the view delivers a ViewUpdate to the installed plugin; with
\* geometryChanged the content may have another height
ViewUpdate ==
  /\ ovEvents < MaxOverlayEvents
  /\ ~ovDestroyed
  /\ \E showOverlay \in ShowOverlays, geometryChanged \in BOOLEAN :
       \E sh \in (IF geometryChanged THEN ScrollHeights ELSE {ovScrollHeight}) :
         /\ OvBecomes(overlayUpdate(setScrollTop([OvThis EXCEPT !.scrollHeight = sh],
                                                 ovScrollTop),
                                    showOverlay, ovShowOverlay, geometryChanged))
         /\ ovShowOverlay' = showOverlay
         /\ ovLast' = OvLast(IF geometryChanged THEN "geometry" ELSE "update", 0, "")
  /\ ovEvents' = ovEvents + 1
  /\ UNCHANGED <<engineVars, mergeVars, windowVars, selVars, loopVars>>

\* the view removes the plugin
Destroy ==
  /\ ovEvents < MaxOverlayEvents
  /\ ~ovDestroyed
  /\ OvBecomes(destroy(OvThis))
  /\ ovLast' = OvLast("destroy", 0, "")
  /\ ovEvents' = ovEvents + 1
  /\ UNCHANGED <<ovShowOverlay, engineVars, mergeVars, windowVars, selVars, loopVars>>

NextOverlay ==
  MouseDown \/ MouseUp \/ MouseMove \/ Scroll \/ Frame \/ ViewUpdate \/ Destroy

(***************************************************************************)
(* The editor seen by the engine.                                          *)
(* An EditorState is [doc, fold, config, tree]: the document, the folded   *)
(* range, the identity of the Config facet value and the length of         *)
(* syntaxTree(state).                                                      *)
(***************************************************************************)
DocA == <<"a", "b">>
DocB == <<"a", "b", NL, "c", "d">>
EngineDocs == {DocA, DocB}

FoldAB == [from |-> 1, to |-> 2]
Focused == "cm-focused"

\* lengths the incremental parser can have reached: the end of a line
ParsePoints(doc) == { docLine(doc, n).to : n \in 1..docLines(doc) }

\* view.viewport: from the start of one line to the end of the same or the next
Viewports(doc) ==
  { [from |-> docLine(doc, a).from, to |-> docLine(doc, b).to] :
      <<a, b>> \in { p \in (1..docLines(doc)) \X (1..docLines(doc)) :
                       p[1] = 1 /\ p[2] \in {1, 2} } }

\* the settings the view is tried with: each differs from the first in one
\* respect (a fold, another Config value, the focus class, another theme)
Settings ==
  { [fold |-> NoFold, config |-> "config1", classList |-> {"cm-editor"}],
    [fold |-> FoldAB, config |-> "config1", classList |-> {"cm-editor"}],
    [fold |-> NoFold, config |-> "config2", classList |-> {"cm-editor"}],
    [fold |-> NoFold, config |-> "config1", classList |-> {"cm-editor", Focused}],
    [fold |-> NoFold, config |-> "config1", classList |-> {"cm-editor", "dark"}] }

NoState == [doc |-> <<>>, fold |-> NoFold, config |-> "", tree |-> 0]

\* what the style classifier emits for a fully parsed doc: one range per
\* non-empty line, tagged by the line
docHighlights(doc) ==
  LET n == docLines(doc)
      all == [i \in 1..n |-> [from |-> docLine(doc, i).from, to |-> docLine(doc, i).to,
                              tags |-> Tags[((i - 1) % 3) + 1]]]
  IN SelectSeq(all, LAMBDA h : h.from < h.to)

\* highlightTree(tree, highlighter, emit, from, to): the ranges of the parsed
\* part of the document, cut to [from, to]
highlightTree(state, from, to) ==
  LET upto == Min(to, state.tree)
      cut(h) == [from |-> Max(h.from, from), to |-> Min(h.to, upto), tags |-> h.tags]
      hs == docHighlights(state.doc)
      cuts == [i \in 1..Len(hs) |-> cut(hs[i])]
  IN SelectSeq(cuts, LAMBDA h : h.from < h.to)

\* update.docChanged
docChanged(ev) == ev.state.doc # ev.startState.doc

\* foldsChanged(update.transactions)
foldsChanged(ev) == ev.state.fold # ev.startState.fold

(***************************************************************************)
(* TextState (part_000). The operators below take and return the record s  *)
(* of the object's fields together with the scheduler's queue, so that a   *)
(* handler can call another one.                                           *)
(***************************************************************************)
This ==
  [map |-> map,
   _previousParsePos |-> _previousParsePos,
   _themeClasses |-> _themeClasses,
   _fontInfoMap |-> _fontInfoMap,
   _highlightingCallbackId |-> _highlightingCallbackId,
   _parseCallbackId |-> _parseCallbackId,
   _updateMapCallbackId |-> _updateMapCallbackId,
   _updateCallbackId |-> _updateCallbackId,
   queue |-> queue]

Becomes(s) ==
  /\ map' = s.map
  /\ _previousParsePos' = s._previousParsePos
  /\ _themeClasses' = s._themeClasses
  /\ _fontInfoMap' = s._fontInfoMap
  /\ _highlightingCallbackId' = s._highlightingCallbackId
  /\ _parseCallbackId' = s._parseCallbackId
  /\ _updateMapCallbackId' = s._updateMapCallbackId
  /\ _updateCallbackId' = s._updateCallbackId
  /\ queue' = s.queue

\* what the callbacks read of the EditorState their closure holds: the
\* document, the line spans and the syntax tree
captured(state) == [state EXCEPT !.config = ""]

\* a scheduled callback with the variables its closure holds
Task(id, kind, state, highlights, mmTo) ==
  [id |-> id, kind |-> kind, state |-> captured(state), highlights |-> highlights,
   startLine |-> 0, ptr |-> 1, mmTo |-> mmTo]

\* The handle requestIdleCallback / setTimeout returns identifies no other
\* callback the program knows; the program only stores handles, tests them
\* against undefined and passes them back, so the least unused number stands
\* for it.
usedIds(s) ==
  { s.queue[i].id : i \in DOMAIN s.queue }
    \cup { s._highlightingCallbackId, s._parseCallbackId,
           s._updateMapCallbackId, s._updateCallbackId }

freshId(s) ==
  CHOOSE n \in 1..(Cardinality(usedIds(s)) + 1) :
    n \notin usedIds(s) /\ \A m \in 1..(n - 1) : m \in usedIds(s)

\* lines 207-211: both back-ends append the callback to the pending ones
scheduleIdleCallback(s, task) == [s EXCEPT !.queue = Append(@, task)]

\* line 214: id !== undefined && id === null
cancelGuard(id) == id # Undefined /\ id = Null

\* lines 213-219
cancelScheduledIdleCallback(s, id) ==
  IF cancelGuard(id)
  THEN [s EXCEPT !.queue = SelectSeq(@, LAMBDA t : t.id # id)]
  ELSE s

ignoredClasses_none == {}
\* lines 450-451: classes whose coming and going is not a theme change
ignoredClasses == {Focused}

\* lines 440-465; _themeClasses is always defined after the constructor.
\* `now` is stored in _themeClasses before cm-focused is deleted from it.
themeChanged(s, cl) ==
  LET previous == s._themeClasses \ ignoredClasses
      now == cl \ ignoredClasses
  IN [changed |-> (Cardinality(previous) # Cardinality(now)) \/ ~(previous \subseteq now),
      s |-> [s EXCEPT !._themeClasses = now]]

\* lines 36-71; the loop of lines 40-42 has an empty body
shouldUpdate(s, ev, cl) ==
  IF docChanged(ev) THEN [result |-> TRUE, s |-> s]
  ELSE IF ev.state.tree > s._previousParsePos THEN [result |-> TRUE, s |-> s]
  ELSE IF ev.state.config # ev.startState.config
  THEN [result |-> TRUE, s |-> [s EXCEPT !.map = EmptyMap]]
  ELSE LET t == themeChanged(s, cl) IN
    IF t.changed THEN [result |-> TRUE, s |-> [t.s EXCEPT !.map = EmptyMap]]
    ELSE IF foldsChanged(ev) THEN [result |-> TRUE, s |-> [t.s EXCEPT !.map = EmptyMap]]
    ELSE [result |-> FALSE, s |-> t.s]

\* lines 36-62: shouldUpdate gets as far as its theme branch and themeChanged()
\* returns true there
detectsThemeChange(s, ev, cl) ==
  /\ ~docChanged(ev)
  /\ ~(ev.state.tree > s._previousParsePos)
  /\ ev.state.config = ev.startState.config
  /\ themeChanged(s, cl).changed

\* lines 73-87
\* `field` of s becomes the handle of the callback scheduled
scheduleAs(s, id, field, task) ==
  [scheduleIdleCallback(s, [task EXCEPT !.id = id]) EXCEPT ![field] = id]

\* lines 78-80; cancelScheduledIdleCallback assigns no field
cancelPending(s) ==
  cancelScheduledIdleCallback(
    cancelScheduledIdleCallback(
      cancelScheduledIdleCallback(s, s._highlightingCallbackId),
      s._parseCallbackId),
    s._updateMapCallbackId)

blockingUpdate_never(deadline) == FALSE
\* line 308: if (!deadline)
blockingUpdate(deadline) == ~deadline

\* lines 221-316; deadline tells whether an IdleDeadline was passed
\* lines 226-228
cancelMerge(s) ==
  IF s._updateMapCallbackId # Undefined
  THEN cancelScheduledIdleCallback(s, s._updateMapCallbackId)
  ELSE s

\* lines 294-303: what a call r of updateMapCallback leaves in the engine;
\* line 303 runs once per line written
afterMerge(s, task, r) ==
  IF r.rescheduled
  THEN scheduleAs([s EXCEPT !.map = r.map], freshId(s), "_updateMapCallbackId",
                  [task EXCEPT !.startLine = r.startLine, !.ptr = r.ptr])
  ELSE [s EXCEPT !.map = r.map,
                 !._updateMapCallbackId = IF r.written > 0 THEN Undefined ELSE @]

\* lines 308-315, after the cancellation of lines 226-228
startMerge(s, state, highlights, deadline) ==
  IF blockingUpdate(deadline)
  THEN afterMerge(s, Task(0, "merge", state, highlights, 0),
                  updateMapCallback(state.doc, LinesState(state.doc, state.fold),
                                    highlights, 0, 1, 0, s.map))
  ELSE scheduleAs(s, freshId(s), "_updateMapCallbackId",
                  Task(0, "merge", state, highlights, 0))

updateMap(s, state, highlights, deadline) ==
  startMerge(cancelMerge(s), state, highlights, deadline)

\* lines 143-144: Text.lineAt throws a RangeError beyond the document
lineAtThrows(state, vp) == vp.from > Len(state.doc) \/ vp.to > Len(state.doc)

\* lines 143-156: the annotation window of state under viewport vp
windowOf(L, vpLineTop, vpLineBottom) ==
  [top    |-> mmLineTop(L, vpLineTop, vpLineBottom, SizeRatio, PixelMultiplier),
   bottom |-> mmLineBottom(L, vpLineTop, vpLineBottom, SizeRatio, PixelMultiplier)]

window(state, vp) ==
  windowOf(docLines(state.doc), lineAtNumber(state.doc, vp.from),
           lineAtNumber(state.doc, vp.to))

\* lines 167-175: the highlights of the window w
highlightsIn(state, w) ==
  highlightTree(state, docLine(state.doc, w.top).from, docLine(state.doc, w.bottom).to)

windowHighlights(state, vp) == highlightsIn(state, window(state, vp))

\* lines 89-205
\* lines 93-109, t the outcome of themeChanged; syntaxTree(state) is an object,
\* so `if (tree)` is always taken
applyTheme(t, state) ==
  [t.s EXCEPT !._fontInfoMap = IF t.changed THEN {} ELSE @,
              !._previousParsePos = state.tree]

\* line 192
scheduleParse(s, state, mmTo) ==
  scheduleAs(s, freshId(s), "_parseCallbackId", Task(0, "parse", state, <<>>, mmTo))

\* line 203
scheduleHighlight(s, state) ==
  scheduleAs(s, freshId(s), "_highlightingCallbackId",
             Task(0, "highlight", state, <<>>, 0))

\* lines 157-203 for the window w
annotate(s, state, w, deadline) ==
  scheduleHighlight(
    scheduleParse(updateMap(s, state, highlightsIn(state, w), deadline),
                  state, docLine(state.doc, w.bottom).to),
    state)

\* lines 143-203
annotateViewport(s, state, vp, deadline) ==
  IF lineAtThrows(state, vp) THEN s
  ELSE annotate(s, state, window(state, vp), deadline)

updateImpl(s, state, vp, cl, deadline) ==
  annotateViewport(applyTheme(themeChanged(s, cl), state), state, vp, deadline)

scheduleUpdate_inline(s, state) ==
  updateMap(s, state, highlightTree(state, 0, state.tree), FALSE)
\* lines 84-86
scheduleUpdate(s, state) ==
  scheduleAs(s, freshId(s), "_updateCallbackId", Task(0, "update", state, <<>>, 0))

\* lines 74-86, c the outcome of shouldUpdate
updateIf(c, ev) ==
  IF ~c.result THEN c.s ELSE scheduleUpdate(cancelPending(c.s), ev.state)

\* lines 73-87
update(s, ev, cl) == updateIf(shouldUpdate(s, ev, cl), ev)

\* lines 196-202
highlightingCallback(s, task, deadline) ==
  [updateMap(s, task.state, highlightTree(task.state, 0, task.state.tree), deadline)
     EXCEPT !._highlightingCallbackId = Undefined]

\* lines 235-306 run as a scheduled callback: stopAfter > 0 is the number of
\* lines written when the deadline is found exhausted
runUpdateMapCallback(s, task, stopAfter) ==
  afterMerge(s, task,
             updateMapCallback(task.state.doc, LinesState(task.state.doc, task.state.fold),
                               task.highlights, task.startLine, task.ptr, stopAfter, s.map))

\* lines 181-189. forceParsing(view, mmTo, budget) works on view.state: the
\* parser reaches `reached`; unless the tree it returns is the one view.state
\* already has, it dispatches an empty transaction, which calls update().
\* The result is the engine and the new view.state.
\* lines 184-188: s the engine after forceParsing
afterParse(s, task, success) ==
  IF success
  THEN [s EXCEPT !._parseCallbackId = Undefined]
  ELSE scheduleAs(s, freshId(s), "_parseCallbackId", task)

\* forceParsing on view.state vs with the tree to parse up to `upto`
forceParsing(s, task, vs, vs2, cl, upto) ==
  [vs |-> vs2,
   hit |-> vs.tree < upto /\ shouldUpdate(s, [startState |-> vs, state |-> vs2], cl).result,
   theme |-> vs.tree < upto /\ detectsThemeChange(s, [startState |-> vs, state |-> vs2], cl),
   s  |-> afterParse(IF vs.tree >= upto THEN s
                     ELSE update(s, [startState |-> vs, state |-> vs2], cl),
                     task, vs2.tree >= upto)]

parseCallback(s, task, vs, cl, reached) ==
  forceParsing(s, task, vs,
               IF vs.tree >= Min(task.mmTo, Len(vs.doc)) THEN vs
               ELSE [vs EXCEPT !.tree = reached],
               cl, Min(task.mmTo, Len(vs.doc)))

(***************************************************************************)
(* Spec: the engine under update events and the idle scheduler.            *)
(* Both back-ends of scheduleIdleCallback run the pending callbacks in the *)
(* order they were posted; requestIdleCallback passes an IdleDeadline,     *)
(* setTimeout passes nothing.                                              *)
(***************************************************************************)
\* last: the step just taken. op is "init", "update" (an update event was
\* delivered) or "task" (the scheduler ran a callback of the given kind);
\* hit tells whether an update() called in the step needed a recompute.
Last(op, kind, hit) == [op |-> op, kind |-> kind, hit |-> hit]

\* the state after `new TextState(view)` (lines 15-34)
InitEngine ==
  /\ viewState = [doc |-> DocA, fold |-> NoFold, config |-> "config1",
                  tree |-> docLine(DocA, 1).to]
  /\ classList = {"cm-editor"}
  /\ viewport \in Viewports(DocA)
  /\ hasRIC \in BOOLEAN
  /\ map = EmptyMap
  /\ _previousParsePos = 0
  /\ _themeClasses = classList
  /\ _fontInfoMap = {}
  /\ _highlightingCallbackId = Undefined
  /\ _parseCallbackId = Undefined
  /\ _updateMapCallbackId = Undefined
  /\ _updateCallbackId = Undefined
  /\ queue = <<>>
  /\ gen = NoState
  /\ genThemeChanged = FALSE
  /\ updates = 0
  /\ last = Last("init", "", FALSE)

Init == InitEngine /\ MergeIdle /\ WindowIdle /\ SelectIdle /\ LoopIdle /\ OverlayIdle

\* the view delivers a ViewUpdate to the plugin: TextState.update(update)
Dispatch ==
  /\ updates < MaxUpdates
  /\ Len(queue) <= MaxPending
  /\ \E d \in EngineDocs, set \in Settings :
       \E t \in ParsePoints(d), vp2 \in Viewports(d) :
         /\ (d = viewState.doc => t >= viewState.tree)
         /\ LET vs2 == [doc |-> d, fold |-> set.fold, config |-> set.config, tree |-> t]
                cl2 == set.classList
                ev == [startState |-> viewState, state |-> vs2]
                hit == shouldUpdate(This, ev, cl2).result
            IN /\ viewState' = vs2
               /\ classList' = cl2
               /\ viewport' = vp2
               /\ Becomes(update(This, ev, cl2))
               /\ last' = Last("update", "", hit)
               /\ gen' = IF hit THEN captured(vs2) ELSE gen
               /\ genThemeChanged' = IF hit THEN detectsThemeChange(This, ev, cl2)
                                      ELSE genThemeChanged
  /\ updates' = updates + 1
  /\ UNCHANGED <<hasRIC, mergeVars, windowVars, selVars, loopVars, overlayVars>>

\* the scheduler runs the callback update() posted (line 84)
RunUpdate ==
  /\ queue # <<>>
  /\ Head(queue).kind = "update"
  /\ LET task == Head(queue)
         s0 == [This EXCEPT !.queue = Tail(@)]
     IN /\ Becomes(updateImpl(s0, task.state, viewport, classList, hasRIC))
        /\ last' = Last("task", "update", FALSE)
  /\ UNCHANGED <<viewState, classList, viewport, hasRIC, gen, genThemeChanged, updates,
                 mergeVars, windowVars, selVars, loopVars, overlayVars>>

\* the scheduler runs updateMapCallback; the deadline it passes may be found
\* exhausted after any line
RunMerge ==
  /\ queue # <<>>
  /\ Head(queue).kind = "merge"
  /\ LET task == Head(queue)
         s0 == [This EXCEPT !.queue = Tail(@)]
         lines == LinesState(task.state.doc, task.state.fold)
     IN \E stopAfter \in 0..(IF hasRIC THEN Min(MaxStop, Len(lines) - task.startLine) ELSE 0) :
          /\ Becomes(runUpdateMapCallback(s0, task, stopAfter))
          /\ last' = Last("task", "merge", FALSE)
  /\ UNCHANGED <<viewState, classList, viewport, hasRIC, gen, genThemeChanged, updates,
                 mergeVars, windowVars, selVars, loopVars, overlayVars>>

\* the scheduler runs parseCallback; the parser gets as far as its budget allows
RunParse ==
  /\ queue # <<>>
  /\ Head(queue).kind = "parse"
  /\ LET task == Head(queue)
         s0 == [This EXCEPT !.queue = Tail(@)]
     IN \E reached \in { p \in ParsePoints(viewState.doc) \cup {viewState.tree} :
                           p >= viewState.tree } :
          LET r == parseCallback(s0, task, viewState, classList, reached)
          IN /\ Becomes(r.s)
             /\ viewState' = r.vs
             /\ gen' = IF r.hit THEN captured(r.vs) ELSE gen
             /\ genThemeChanged' = IF r.hit THEN r.theme ELSE genThemeChanged
             /\ last' = Last("task", "parse", r.hit)
  /\ UNCHANGED <<classList, viewport, hasRIC, updates, mergeVars, windowVars,
                 selVars, loopVars, overlayVars>>

\* the scheduler runs highlightingCallback
RunHighlight ==
  /\ queue # <<>>
  /\ Head(queue).kind = "highlight"
  /\ LET task == Head(queue)
         s0 == [This EXCEPT !.queue = Tail(@)]
     IN /\ Becomes(highlightingCallback(s0, task, hasRIC))
        /\ last' = Last("task", "highlight", FALSE)
  /\ UNCHANGED <<viewState, classList, viewport, hasRIC, gen, genThemeChanged, updates,
                 mergeVars, windowVars, selVars, loopVars, overlayVars>>

Next == Dispatch \/ RunUpdate \/ RunMerge \/ RunParse \/ RunHighlight

Spec == Init /\ [][Next]_vars

(***************************************************************************)
(* SpecDraw: the engine with the style resolution of the draw path.        *)
(* An entry of _fontInfoMap is [tags, classList]: the FontInfo of `tags`   *)
(* as getComputedStyle gave it under the class list of that moment.        *)
(***************************************************************************)
\* lines 410-438: the map after getFontInfo(tags)
getFontInfo(s, tags, cl) ==
  IF \E e \in s._fontInfoMap : e.tags = tags
  THEN s
  ELSE [s EXCEPT !._fontInfoMap = @ \cup {[tags |-> tags, classList |-> cl]}]

\* lines 318-332: measure() resolves the style of untagged text
Measure ==
  /\ Becomes(getFontInfo(This, "", classList))
  /\ last' = Last("draw", "measure", FALSE)
  /\ UNCHANGED <<viewState, classList, viewport, hasRIC, gen, genThemeChanged, updates,
                 mergeVars, windowVars, selVars, loopVars, overlayVars>>

\* lines 334-336
BeforeDraw ==
  /\ Becomes([This EXCEPT !._fontInfoMap = {}])
  /\ last' = Last("draw", "beforeDraw", FALSE)
  /\ UNCHANGED <<viewState, classList, viewport, hasRIC, gen, genThemeChanged, updates,
                 mergeVars, windowVars, selVars, loopVars, overlayVars>>

NextDraw ==
  Dispatch \/ RunUpdate \/ RunMerge \/ RunParse \/ RunHighlight \/ Measure \/ BeforeDraw

SpecDraw == Init /\ [][NextDraw]_vars

\* the engine at rest, for the specifications of its parts
EngineIdle == InitEngine /\ hasRIC /\ viewport = [from |-> 0, to |-> 2]

\* one updateMap on an engine at rest
InitMergeSpec == InitMerge /\ EngineIdle /\ WindowIdle /\ SelectIdle /\ LoopIdle /\ OverlayIdle

SpecMerge == InitMergeSpec /\ [][NextMerge]_vars

\* one viewport projection on an engine at rest
InitWindowSpec == InitWindow /\ EngineIdle /\ MergeIdle /\ SelectIdle /\ LoopIdle /\ OverlayIdle

SpecWindow == InitWindowSpec /\ [][NextWindow]_vars

\* SelectionState on its own
InitSelectSpec == InitSelect /\ EngineIdle /\ MergeIdle /\ WindowIdle /\ LoopIdle /\ OverlayIdle

SpecSelect == InitSelectSpec /\ [][NextSelect]_vars

\* one run of SelectionState.update; a handler that has started runs to its
\* end, so a statement that can be taken is taken
InitSelectLoopSpec == InitLoop /\ EngineIdle /\ MergeIdle /\ WindowIdle /\ SelectIdle /\ OverlayIdle

SpecSelectLoop == InitSelectLoopSpec /\ [][NextSelectLoop]_vars /\ WF_vars(NextSelectLoop)

\* the overlay on its own
InitOverlaySpec ==
  InitOverlay /\ EngineIdle /\ MergeIdle /\ WindowIdle /\ SelectIdle /\ LoopIdle

SpecOverlay == InitOverlaySpec /\ [][NextOverlay]_vars

(***************************************************************************)
(* Properties                                                              *)
(***************************************************************************)
handles == <<_highlightingCallbackId, _parseCallbackId, _updateMapCallbackId,
             _updateCallbackId>>

ContinuationKinds == {"merge", "parse", "highlight"}

\* C1: when update() has classified an event as needing a recompute, no
\* merge continuation, parse-advance task or full-document highlight task
\* scheduled before that call is still pending once the call has returned.
C1_EarlierContinuationsCancelled ==
  (last.op = "update" /\ last.hit)
    => \A i \in DOMAIN queue : queue[i].kind \notin ContinuationKinds

\* C2: when a merge cut into chunks by its deadline has finished, the cache
\* equals the cache the same merge leaves when it runs in one pass.
C2_ChunkedEqualsUnchunked ==
  (mPc = "done")
    => mMap = blockingMerge(mIn.doc, mIn.lines, mIn.highlights, EmptyMap)

\* the cache entry the full-document pass of state st gives line n
fullDocumentEntry(st, n) ==
  blockingMerge(st.doc, LinesState(st.doc, st.fold),
                highlightTree(st, 0, st.tree), EmptyMap)[n]

\* C3: once every task has run after the last qualifying update, each line's
\* cache entry is the merge of the full-document highlight stream of that
\* update's state with the line's spans.
C3_FinalCacheIsFullMerge ==
  (last.op = "task" /\ queue = <<>> /\ gen # NoState)
    => \A n \in 1..docLines(gen.doc) :
         n \in DOMAIN map /\ map[n] = fullDocumentEntry(gen, n)

RECURSIVE concatText(_)
concatText(segments) ==
  IF segments = <<>> THEN <<>>
  ELSE Head(segments).text \o concatText(Tail(segments))

\* the text of a line as shown: its unfolded spans as in the document, each
\* folded span as the placeholder glyph
RECURSIVE visibleText(_, _)
visibleText(doc, line) ==
  IF line = <<>> THEN <<>>
  ELSE (IF Head(line).folded THEN Placeholder
        ELSE SubSeq(doc, Head(line).from + 1, Head(line).to))
       \o visibleText(doc, Tail(line))

\* C4: the texts of the segments of every line the merge has written,
\* concatenated in order, are the line's visible text.
C4_SegmentsReconstructLine ==
  \A n \in DOMAIN mMap : concatText(mMap[n]) = visibleText(mIn.doc, mIn.lines[n])

\* a chunked merge has written a line with a styled segment, a fold
\* placeholder and a highlight that started on an earlier line
C4_Witness ==
  /\ mChunks >= 2
  /\ \E n \in DOMAIN mMap :
       /\ n >= 2
       /\ \E i \in DOMAIN mMap[n] : mMap[n][i].text = Placeholder
       /\ \E i \in DOMAIN mMap[n] : mMap[n][i].tags # ""
       /\ \E k \in DOMAIN mIn.highlights :
            /\ mIn.highlights[k].from < mIn.lines[n][1].from
            /\ mIn.highlights[k].to > mIn.lines[n][1].from

\* C5: no segment stored in the cache has empty text.
C5_NoZeroLengthSegment ==
  \A n \in DOMAIN mMap : \A i \in DOMAIN mMap[n] : mMap[n][i].text # <<>>

\* the update event of this step fails every classification predicate
C6_FailsAllPredicates ==
  /\ viewState'.doc = viewState.doc
  /\ viewState'.tree <= _previousParsePos
  /\ viewState'.config = viewState.config
  /\ (classList' \ {Focused}) = (_themeClasses \ {Focused})
  /\ viewState'.fold = viewState.fold

C7_CacheClearedOnConfigThemeFold ==
  [][ (/\ last'.op = "update"
       /\ \/ viewState'.config # viewState.config
          \/ (classList' \ {Focused}) # (classList \ {Focused})
          \/ viewState'.fold # viewState.fold)
        => map' = EmptyMap ]_vars

\* C8: after an update whose edit increased the line count, the cache has no
\* entry at or beyond the previous document's last line.
C8_GrownLinesDropped ==
  [][ (last'.op = "update" /\ docLines(viewState'.doc) > docLines(viewState.doc))
        => \A n \in DOMAIN map' : n < docLines(viewState.doc) ]_vars

\* C9: the window contains the viewport and lies within the document.
C9_WindowContainsViewport ==
  (wOut # NoWindow)
    => /\ 1 <= wOut.top
       /\ wOut.top <= wIn.vpTop
       /\ wIn.vpTop <= wIn.vpBottom
       /\ wIn.vpBottom <= wOut.bottom
       /\ wOut.bottom <= wIn.L

\* a window that extends the viewport on both sides without reaching either
\* end of the document
C9_Witness ==
  /\ wOut # NoWindow
  /\ 1 < wOut.top /\ wOut.top < wIn.vpTop
  /\ wIn.vpBottom < wOut.bottom /\ wOut.bottom < wIn.L

\* the recompute task has just run and scheduled the full-document highlight
\* task, the last callback it posts
highlightJustScheduled ==
  /\ last.op = "task" /\ last.kind = "update"
  /\ queue # <<>>
  /\ queue[Len(queue)].kind = "highlight"
  /\ queue[Len(queue)].id = _highlightingCallbackId

\* the lines of the window of the generation just started hold what the
\* fast-window pass writes
windowLinesWritten ==
  LET st == queue[Len(queue)].state
      w == window(st, viewport)
      pass == blockingMerge(st.doc, LinesState(st.doc, st.fold),
                            windowHighlights(st, viewport), EmptyMap)
  IN \A n \in w.top..w.bottom : n \in DOMAIN map /\ map[n] = pass[n]

\* C10 as stated: when the full-document highlight task is scheduled, the
\* fast-window pass has written the window's lines, under either back-end.
C10_WindowWrittenBeforeHighlightScheduled ==
  highlightJustScheduled => windowLinesWritten

\* C10 as amended: when the full-document highlight task is scheduled, the
\* fast-window pass has written the window's lines under the setTimeout
\* back-end; under requestIdleCallback its merge is a pending callback posted
\* ahead of the highlight task.
C10_WindowPassAheadOfHighlight ==
  highlightJustScheduled
    => IF hasRIC
       THEN \E i \in 1..(Len(queue) - 1) :
              /\ queue[i].kind = "merge"
              /\ queue[i].id = _updateMapCallbackId
              /\ queue[i].state = queue[Len(queue)].state
              /\ queue[i].highlights = windowHighlights(queue[i].state, viewport)
              /\ queue[i].startLine = 0 /\ queue[i].ptr = 1
       ELSE windowLinesWritten

\* under setTimeout the window pass of a two-line document has written its
\* single-line window, and only then the highlight task was scheduled
C10_Witness ==
  /\ highlightJustScheduled
  /\ ~hasRIC
  /\ windowLinesWritten
  /\ docLines(queue[Len(queue)].state.doc) = 2
  /\ window(queue[Len(queue)].state, viewport).bottom = 1

\* C11: a call of update() writes no line entry into the cache: after the
\* call every entry of the cache is an entry it held before the call. This
\* holds for the update of an event and for the update the parse-advance task
\* causes by its dispatch; line entries are written by the recompute, merge
\* and highlight tasks the scheduler runs, under either back-end.
C11_UpdateWritesNoLine ==
  [][ (last'.op = "update" \/ (last'.op = "task" /\ last'.kind = "parse"))
        => \A n \in DOMAIN map' : n \in DOMAIN map /\ map'[n] = map[n] ]_vars

\* update() has scheduled a recompute for a document with more lines than the
\* cache holds, and the lines the cache held are still there
C11_Witness ==
  /\ last.op = "update" /\ last.hit
  /\ map # EmptyMap
  /\ \E n \in 1..docLines(viewState.doc) : n \notin DOMAIN map
  /\ queue # <<>>
  /\ queue[Len(queue)].kind = "update"

\* the cache SelectionState.update leaves for `state` when it starts from an
\* empty cache
selFresh(state) == linesLoop(LinesState(state.doc, state.fold), state.ranges, 0, 0, EmptyMap)

\* line n of state.doc meets a non-empty selection range
selTouched(state, n) ==
  \E i \in DOMAIN state.ranges :
    /\ state.ranges[i].from < state.ranges[i].to
    /\ state.ranges[i].from <= docLine(state.doc, n).to
    /\ state.ranges[i].to >= docLine(state.doc, n).from

\* C12: when SelectionState.update has returned, the cache is the one derived
\* from update.state alone, whatever updates came before: it equals the cache
\* computed for that state from an empty cache, and it has an entry exactly
\* for the lines of that state's document that a non-empty range meets.
C12_CacheIsOfLastState ==
  (selUpdates > 0)
    => /\ selMap = selFresh(selIn)
       /\ DOMAIN selMap = { n \in 1..docLines(selIn.doc) : selTouched(selIn, n) }

\* a second update found a cached line that its state does not select, and
\* wrote other lines
C12_Witness ==
  /\ selUpdates = 2
  /\ selDropped
  /\ selMap # EmptyMap

\* C13: no entry of the selection cache holds two adjacent runs a, b with
\* a.to = b.from.
C13_NoTouchingAdjacentRuns ==
  \A n \in DOMAIN selMap :
    \A i \in 1..(Len(selMap[n]) - 1) : selMap[n][i].to # selMap[n][i + 1].from

\* two non-empty ranges that touch inside the one span of line 1 were joined
\* into a single run
C13_Witness ==
  /\ selUpdates > 0
  /\ Len(selIn.ranges) = 2
  /\ selIn.fold = NoFold
  /\ selIn.ranges[1].from < selIn.ranges[1].to
  /\ selIn.ranges[1].to = selIn.ranges[2].from
  /\ selIn.ranges[2].from < selIn.ranges[2].to
  /\ selIn.ranges[2].to <= docLine(selIn.doc, 1).to
  /\ 1 \in DOMAIN selMap
  /\ selMap[1] = <<Selection(selIn.ranges[1].from, selIn.ranges[2].to, FALSE)>>

\* range r selects a part of two consecutive spans of `line`
selCrossesSpans(line, r) ==
  /\ r.from < r.to
  /\ \E j \in 1..(Len(line) - 1) : r.from < line[j].to /\ r.to > line[j + 1].from

\* C14: when a selection range covers parts of two or more consecutive spans
\* of a line, the line's entry holds one run for that range in column offsets
\* from the start of the line: a run that starts at or before the column where
\* the range enters the line and ends at or after the column where it leaves.
C14_OneRunAcrossSpans ==
  (selUpdates > 0)
    => \A n \in 1..docLines(selIn.doc) : \A i \in DOMAIN selIn.ranges :
         selCrossesSpans(LinesState(selIn.doc, selIn.fold)[n], selIn.ranges[i])
           => /\ n \in DOMAIN selMap
              /\ \E k \in DOMAIN selMap[n] :
                   /\ selMap[n][k].from
                        <= Max(selIn.ranges[i].from, docLine(selIn.doc, n).from)
                             - docLine(selIn.doc, n).from
                   /\ selMap[n][k].to
                        >= Min(selIn.ranges[i].to, docLine(selIn.doc, n).to)
                             - docLine(selIn.doc, n).from

\* every line is one span, and range i starts on line n and ends beyond it
selRunsOver(n, i) ==
  /\ selIn.fold = NoFold
  /\ n \in 1..docLines(selIn.doc)
  /\ i \in DOMAIN selIn.ranges
  /\ docLine(selIn.doc, n).from <= selIn.ranges[i].from
  /\ selIn.ranges[i].from < docLine(selIn.doc, n).to
  /\ docLine(selIn.doc, n).to < selIn.ranges[i].to

\* the run of range i on line n, where it starts
selHeadRun(n, i) ==
  Selection(selIn.ranges[i].from - docLine(selIn.doc, n).from,
            docLine(selIn.doc, n).to - docLine(selIn.doc, n).from,
            TRUE)

\* the run of range i on line n, which it enters from above
selTailRun(n, i) ==
  Selection(0,
            Min(docLine(selIn.doc, n).to, selIn.ranges[i].to) - docLine(selIn.doc, n).from,
            selIn.ranges[i].to > docLine(selIn.doc, n).to)

\* C15 as stated: a range that starts on a one-span line l and ends beyond
\* it gives l the run {r.from - l.from, l.to - l.from, continuesBelow} as its
\* last run, and gives the next line as its first run
\* {0, min(l'.to, r.to) - l'.from, r.to > l'.to}.
C15_RunsOfRangeCrossingLineEnd ==
  (selUpdates > 0)
    => \A n \in 1..docLines(selIn.doc) : \A i \in DOMAIN selIn.ranges :
         selRunsOver(n, i)
           => /\ n \in DOMAIN selMap
              /\ selMap[n][Len(selMap[n])] = selHeadRun(n, i)
              /\ (n + 1) \in DOMAIN selMap
              /\ selMap[n + 1][1] = selTailRun(n + 1, i)

\* the non-empty range before range i ends where range i starts
selJoinedBefore(i) ==
  /\ i > 1
  /\ selIn.ranges[i - 1].from < selIn.ranges[i - 1].to
  /\ selIn.ranges[i - 1].to = selIn.ranges[i].from

\* range i ends on line n and the non-empty range after it starts there
selJoinedAfter(n, i) ==
  /\ i < Len(selIn.ranges)
  /\ selIn.ranges[i].to <= docLine(selIn.doc, n).to
  /\ selIn.ranges[i + 1].from < selIn.ranges[i + 1].to
  /\ selIn.ranges[i + 1].from = selIn.ranges[i].to

\* C15 as amended: the same runs, except that a run is joined with the run of
\* a touching neighbour range: the last run of l ends at l.to - l.from with
\* continuesBelow, and starts at r.from - l.from unless the range before r
\* ends at r.from (then it starts there or earlier); the first run of the next line
\* starts at 0 and is {0, min(l'.to, r.to) - l'.from, r.to > l'.to} unless the
\* range after r starts where r ends on that line (then it ends there or
\* later).
C15_RunsOfRangeCrossingLineEndJoined ==
  (selUpdates > 0)
    => \A n \in 1..docLines(selIn.doc) : \A i \in DOMAIN selIn.ranges :
         selRunsOver(n, i)
           => /\ n \in DOMAIN selMap
              /\ selMap[n][Len(selMap[n])].to = selHeadRun(n, i).to
              /\ selMap[n][Len(selMap[n])].extends
              /\ IF selJoinedBefore(i)
                 THEN selMap[n][Len(selMap[n])].from <= selHeadRun(n, i).from
                 ELSE selMap[n][Len(selMap[n])].from = selHeadRun(n, i).from
              /\ (n + 1) \in DOMAIN selMap
              /\ selMap[n + 1][1].from = 0
              /\ IF selJoinedAfter(n + 1, i)
                 THEN selMap[n + 1][1].to >= selTailRun(n + 1, i).to
                 ELSE selMap[n + 1][1] = selTailRun(n + 1, i)

\* a range that starts on line 1 and ends inside line 2, alone on both
C15_Witness ==
  /\ selUpdates > 0
  /\ selRunsOver(1, 1)
  /\ Len(selIn.ranges) = 1
  /\ selIn.ranges[1].to > docLine(selIn.doc, 2).from
  /\ selMap[1] = <<selHeadRun(1, 1)>>
  /\ selMap[2] = <<selTailRun(2, 1)>>

\* C16: every entry of the selection cache is a non-empty list, and every run
\* in it has 0 <= from <= to, with from < to unless it continues below.
C16_NoInvisibleRun ==
  \A n \in DOMAIN selMap :
    /\ selMap[n] # <<>>
    /\ \A k \in DOMAIN selMap[n] :
         /\ 0 <= selMap[n][k].from
         /\ selMap[n][k].from <= selMap[n][k].to
         /\ (selMap[n][k].from < selMap[n][k].to \/ selMap[n][k].extends)

\* a merge that ran in one pass has finished
mergedInOnePass == mPc = "done" /\ mChunks = 1

\* line n has a folded span j with text on both sides, and highlight k starts
\* before the fold and ends after it
spansFold(n, j, k) ==
  /\ n \in DOMAIN mIn.lines
  /\ j \in 2..(Len(mIn.lines[n]) - 1)
  /\ mIn.lines[n][j].folded
  /\ k \in DOMAIN mIn.highlights
  /\ mIn.highlights[k].from < mIn.lines[n][j].from
  /\ mIn.highlights[k].to > mIn.lines[n][j].to

\* the three segments of highlight k around the folded span j of line n
aroundFold(n, j, k) ==
  << [text |-> slice(mIn.doc, Max(mIn.highlights[k].from, mIn.lines[n][j - 1].from),
                     mIn.lines[n][j].from),
      tags |-> mIn.highlights[k].tags],
     [text |-> Placeholder, tags |-> ""],
     [text |-> slice(mIn.doc, mIn.lines[n][j].to,
                     Min(mIn.highlights[k].to, mIn.lines[n][j + 1].to)),
      tags |-> mIn.highlights[k].tags] >>

\* entry holds the three segments at p..p+2, and the segments before them are
\* the text of the line before the highlight
foldStretchAt(entry, n, j, k, p) ==
  /\ p + 2 <= Len(entry)
  /\ SubSeq(entry, p, p + 2) = aroundFold(n, j, k)
  /\ Len(concatText(SubSeq(entry, 1, p - 1)))
       = Max(mIn.highlights[k].from, mIn.lines[n][j - 1].from) - mIn.lines[n][j - 1].from

tagAt(highlights, c) ==
  IF \E k \in DOMAIN highlights : highlights[k].from <= c /\ c < highlights[k].to
  THEN highlights[CHOOSE k \in DOMAIN highlights :
                    highlights[k].from <= c /\ c < highlights[k].to].tags
  ELSE ""

\* per glyph of a line as shown, the tag it should carry: the placeholder of
\* a folded span is unstyled
RECURSIVE expectedTags(_, _)
expectedTags(highlights, line) ==
  IF line = <<>> THEN <<>>
  ELSE (IF Head(line).folded THEN <<"">>
        ELSE [c \in 1..(Head(line).to - Head(line).from) |->
                tagAt(highlights, Head(line).from + c - 1)])
       \o expectedTags(highlights, Tail(line))

\* per glyph of a cache entry, the tag of the segment it belongs to
RECURSIVE segmentTags(_)
segmentTags(segments) ==
  IF segments = <<>> THEN <<>>
  ELSE [c \in 1..Len(Head(segments).text) |-> Head(segments).tags]
       \o segmentTags(Tail(segments))

\* after an unchunked merge every character of every line lies in one
\* segment, whose tag is that of the range containing the character
C18_CharactersTagged ==
  mergedInOnePass
    => \A n \in DOMAIN mIn.lines :
         /\ n \in DOMAIN mMap
         /\ concatText(mMap[n]) = visibleText(mIn.doc, mIn.lines[n])
         /\ segmentTags(mMap[n]) = expectedTags(mIn.highlights, mIn.lines[n])

\* the highlight ranges that contain a character of line n, in order
rangesOn(n) ==
  SelectSeq(mIn.highlights,
            LAMBDA h : Max(h.from, mIn.lines[n][1].from)
                         < Min(h.to, mIn.lines[n][Len(mIn.lines[n])].to))

\* line n is one unfolded span and the ranges contain each of its characters
tiled(n) ==
  /\ Len(mIn.lines[n]) = 1
  /\ ~mIn.lines[n][1].folded
  /\ \A c \in mIn.lines[n][1].from..(mIn.lines[n][1].to - 1) :
       \E k \in DOMAIN mIn.highlights :
         mIn.highlights[k].from <= c /\ c < mIn.highlights[k].to

\* one segment per range of rangesOn(n), cut to the line
tiling(n) ==
  [i \in 1..Len(rangesOn(n)) |->
     [text |-> slice(mIn.doc, Max(rangesOn(n)[i].from, mIn.lines[n][1].from),
                     Min(rangesOn(n)[i].to, mIn.lines[n][1].to)),
      tags |-> rangesOn(n)[i].tags]]

\* what does hold of a tiled line: its segments with text are one per range
tiledUpToEmptySegments ==
  mergedInOnePass
    => \A n \in DOMAIN mIn.lines :
         tiled(n) => SelectSeq(mMap[n], LAMBDA g : g.text # <<>>) = tiling(n)

\* C18: after an unchunked merge every character of every non-folded span is
\* in exactly one segment, tagged as the range that contains it (untagged if
\* none does); and a line tiled exactly by ranges has one segment per range,
\* in order, with that range's tag, also when a range spans several lines.
C18_SegmentsFollowRanges ==
  /\ C18_CharactersTagged
  /\ mergedInOnePass
       => \A n \in DOMAIN mIn.lines : tiled(n) => mMap[n] = tiling(n)

\* C19: a chunk that stops on its deadline leaves the continuation at the
\* line after the last line written, so that a merge over L lines is finished
\* after at most L chunks stopped by the deadline, however early each
\* deadline is exhausted.
C19_ChunksMakeProgress ==
  (mPc = "pending" /\ mChunks > 0)
    => /\ mStartLine = Cardinality(DOMAIN mMap)
       /\ mChunks <= Len(mIn.lines)

TaskKinds == {"update", "merge", "parse", "highlight"}

\* the scheduled, not yet run tasks of a kind
pendingOf(kind) == { i \in DOMAIN queue : queue[i].kind = kind }

\* C20: at every moment at most one task of each kind (recompute, merge
\* continuation, parse-advance, full-document highlight) is scheduled and not
\* yet run.
C20_OnePendingTaskPerKind ==
  \A kind \in TaskKinds : Cardinality(pendingOf(kind)) <= 1

\* the step in which the scheduler runs updateImpl without an IdleDeadline
\* (the setTimeout back-end): the merge over the window-bounded highlight
\* stream runs inside the step (line 310)
windowPassStep ==
  /\ queue # <<>>
  /\ Head(queue).kind = "update"
  /\ ~hasRIC
  /\ ~lineAtThrows(Head(queue).state, viewport)
  /\ last'.op = "task" /\ last'.kind = "update"

\* the annotation window of the recompute the scheduler is about to run
passWindow == window(Head(queue).state, viewport)

\* C21: the fast-window pass, the merge updateImpl starts with the
\* window-bounded highlight stream, writes cache entries only for the lines
\* windowTop .. windowBottom: every entry of a line outside the window is,
\* after the pass, the entry the cache held before it.
C21_WindowPassWritesWindowOnly ==
  [][ windowPassStep
        => \A n \in DOMAIN map' :
             (n < passWindow.top \/ n > passWindow.bottom)
               => n \in DOMAIN map /\ map'[n] = map[n] ]_vars

\* the run of update is at the do/while of a span
inDoWhile == loopPc = "do"

loopAgrees ==
  loopPc = "done" => loopMap = linesLoop(loopLines, loopIn.ranges, 0, 0, EmptyMap)

\* no callback is scheduled: every recompute generation has finished
generationsFinished == updates > 0 /\ queue = <<>>

\* C23: after a document edit that reduces the line count, once the
\* recompute generation it causes has finished, the highlight cache holds no
\* entry for a line number greater than the line count of the new document.
C23_NoEntryBeyondDocument ==
  generationsFinished => \A n \in DOMAIN map : n <= docLines(viewState.doc)

\* the FontInfo entries resolved under another theme than the current one
staleFontInfo ==
  { e \in _fontInfoMap : e.classList \ ignoredClasses # classList \ ignoredClasses }

\* C24: when update() has detected a theme class change, then once the
\* recompute task of that update has run the style-resolution cache serves no
\* FontInfo resolved under the previous theme, whether or not beforeDraw has
\* been called.
C24_NoFontInfoOfPreviousTheme ==
  (genThemeChanged /\ pendingOf("update") = {}) => staleFontInfo = {}

\* the step delivers an event of the given type to the overlay
ovEventStep(type) == ovEvents' = ovEvents + 1 /\ ovLast'.type = type

\* the step is the animation frame running a posted computeTop
ovFrameStep == ovEvents' = ovEvents /\ ovLast'.type = "frame"

\* where computeTop puts the overlay when it is not held back
ovComputedTop == int(currentTopFromScrollHeight(ClientHeight, ovScrollTop, ovScrollHeight))

\* C25: the drag state machine of the overlay. _isDragging becomes true only
\* on a mousedown with a button other than 2 whose target is the overlay
\* element; it stays true until the next mouseup; after every mouseup it is
\* false, _dragStartY is undefined and the active class is removed. While it
\* is true, a computeTop triggered by a scroll or by a geometry update leaves
\* the overlay's top unchanged; while it is false, a mousemove changes
\* neither the overlay's top nor the editor's scroll position.
C25_DragStateMachine ==
  /\ [][ (~ov_isDragging /\ ov_isDragging')
           => /\ ovEventStep("mousedown")
              /\ ovLast'.button # 2
              /\ ovLast'.target = "dom" ]_vars
  /\ [][ (ov_isDragging /\ ~ov_isDragging') => ovEventStep("mouseup") ]_vars
  /\ [](ovLast.type = "mouseup"
          => ~ov_isDragging /\ ov_dragStartY = <<>> /\ Active \notin ovClassList)
  /\ [][ (ov_isDragging /\ (ovFrameStep \/ ovEventStep("geometry")))
           => ovTop' = ovTop ]_vars
  /\ [][ (~ov_isDragging /\ ovEventStep("mousemove"))
           => ovTop' = ovTop /\ ovScrollTop' = ovScrollTop ]_vars

\* during a drag the editor was scrolled, the animation frame has run
\* computeTop, and the overlay is not where computeTop would put it
C25_Witness ==
  /\ ov_isDragging
  /\ ovLast.type = "frame"
  /\ ovTop # ovComputedTop
  /\ ~ovDestroyed

\* C26: after destroy() the mousedown, mouseup and mousemove handlers of the
\* overlay are no longer registered: a later mouse event on the window or on
\* the container changes neither the drag state, nor the overlay's position,
\* nor the editor's scroll position.
C26_NoMouseHandlingAfterDestroy ==
  [][ (ovDestroyed /\ (ovEventStep("mousedown") \/ ovEventStep("mouseup")
                         \/ ovEventStep("mousemove")))
        => UNCHANGED <<ov_isDragging, ov_dragStartY, ovClassList, ovTop, ovScrollTop>> ]_vars

====
